---- MODULE Spec2Model ----
(***************************************************************************)
(* Model of the bitmap allocator of src/src/lib.rs: the 16-bit leaf        *)
(* BitAlloc16, the 16-ary cascade BitAllocCascade16<T> and the contiguous  *)
(* search find_contiguous.                                                 *)
(*                                                                         *)
(* An allocator of level 0 is a leaf, represented by its u16 word (an      *)
(* integer in 0..65535).  An allocator of level l > 0 is the record        *)
(* [bitset, sub]: the u16 summary word and the 16 children of level l-1,   *)
(* indexed 0..15 as in the source.  Bit = 1 means "free".                  *)
(*                                                                         *)
(* Every operation is an operator that returns a record with the state     *)
(* it leaves (st), its return value (res, None for Option::None) and       *)
(* whether it panicked (panic: a failed assert!, unwrap or index check).   *)
(* When an operation panics, st is the state at the moment of the panic.   *)
(***************************************************************************)
EXTENDS Integers, Sequences, FiniteSets

\* Option::None of the Option<usize> results.
None == -1

\* BitAlloc16::CAP, and the fan-out of BitAllocCascade16 (sub: [T; 16]).
LeafCap == 16
FanOut == 16
\* The number of bits of the u16 words (BitField::BIT_LENGTH for u16).
WordBits == 16

\* The allocator types that are modelled, by nesting level:
\* 0 = BitAlloc16, 1 = BitAlloc256, 2 = BitAlloc4K.
Levels == {0, 1, 2}

\* Self::CAP of the allocator of level l: 16 for the leaf, T::CAP * 16 above.
RECURSIVE CAP(_)
CAP(l) == IF l = 0 THEN LeafCap ELSE CAP(l - 1) * FanOut

(***************************************************************************)
(* Bit-word primitives (crate bit_field, on u16).                          *)
(***************************************************************************)
\* get_bit(i); the crate asserts i < BIT_LENGTH.
GetBit(w, i) == (w \div 2^i) % 2 = 1

\* set_bit(i, v).
SetBit(w, i, v) ==
    IF v THEN (IF GetBit(w, i) THEN w ELSE w + 2^i)
         ELSE (IF GetBit(w, i) THEN w - 2^i ELSE w)

\* The asserts of get_bits / set_bits on a range s..e:
\* start < BIT_LENGTH, end <= BIT_LENGTH, start < end.
BitRangeOk(s, e) == s < WordBits /\ e <= WordBits /\ s < e

\* get_bits(s..e): the bits s..e-1 as a packed value.
GetBits(w, s, e) == (w % 2^e) \div 2^s

\* set_bits(s..e, value): the bits s..e-1 replaced by value.
SetBits(w, s, e, value) == w - GetBits(w, s, e) * 2^s + value * 2^s

\* log2_naive: count the shifts until the word is 0 (pos starts at -1).
RECURSIVE Log2Loop(_, _)
Log2Loop(x, pos) == IF x # 0 THEN Log2Loop(x \div 2, pos + 1) ELSE pos

\* A log2_naive whose pos starts at 0.
Log2NaiveFromZero(x) == Log2Loop(x, 0)

Log2Naive(x) == Log2Loop(x, -1)

\* log2 on x86_64: bsrw, the index of the most significant set bit of a
\* nonzero 16-bit word.
Log2Bsr(x) == CHOOSE p \in 0..(WordBits - 1) : 2^p <= x /\ x < 2^(p + 1)

\* A log2 that finds the lowest set bit instead of the highest.
RECURSIVE Log2LowestLoop(_, _)
Log2LowestLoop(x, pos) == IF x % 2 = 1 THEN pos ELSE Log2LowestLoop(x \div 2, pos + 1)

Log2Lowest(x) == Log2LowestLoop(x, 0)

\* log2: both variants assert x != 0 at the call sites' word; the value is
\* the index of the highest set bit.
Log2(x) == Log2Naive(x)

(***************************************************************************)
(* The allocators.  Ok(st, res) is a normal return, Panic(st) a panic.     *)
(***************************************************************************)
Ok(st, res) == [st |-> st, res |-> res, panic |-> FALSE]
Panic(st) == [st |-> st, res |-> None, panic |-> TRUE]

\* const DEFAULT: BitAlloc16(0); bitset: 0 and sub: [T::DEFAULT; 16].
RECURSIVE Default(_)
\* A default whose leaf words are all ones (everything free).
DefaultAllFree(l) ==
    IF l = 0 THEN 65535
    ELSE [bitset |-> 0, sub |-> [i \in 0..(FanOut - 1) |-> Default(l - 1)]]

Default(l) ==
    IF l = 0 THEN 0
    ELSE [bitset |-> 0, sub |-> [i \in 0..(FanOut - 1) |-> Default(l - 1)]]

\* any(): the leaf word, or the summary word, is not 0.
Any(l, a) == IF l = 0 THEN a # 0 ELSE a.bitset # 0

\* test(key): the bit of the leaf that holds key.  get_bit asserts
\* key < 16 in the leaf, and the cascade indexes sub with key / T::CAP, so a
\* key >= CAP panics.  The value returned is in res (TRUE or FALSE).
RECURSIVE Test(_, _, _)
Test(l, a, key) ==
    IF l = 0 THEN
        IF key >= WordBits THEN Panic(a) ELSE Ok(a, GetBit(a, key))
    ELSE
        LET i == key \div CAP(l - 1) IN
        IF i >= FanOut THEN Panic(a)
        ELSE LET r == Test(l - 1, a.sub[i], key % CAP(l - 1))
             IN  [st |-> a, res |-> r.res, panic |-> r.panic]

\* Whether test(key) returns true (for a key below CAP).
IsFree(l, a, key) == Test(l, a, key).res = TRUE

\* alloc(): the highest set bit of the word; in a cascade the child of the
\* highest set summary bit allocates, then the summary bit is recomputed.
RECURSIVE Alloc(_, _)
\* An alloc that leaves the summary bit as it was.
AllocStaleSummary(l, a) ==
    IF ~Any(l, a) THEN Ok(a, None)
    ELSE IF l = 0 THEN
        LET i == Log2(a) IN Ok(SetBit(a, i, FALSE), i)
    ELSE
        LET i == Log2(a.bitset)
            r == Alloc(l - 1, a.sub[i])
            sub2 == [a.sub EXCEPT ![i] = r.st]
        IN  IF r.panic \/ r.res = None
            THEN Panic([a EXCEPT !.sub = sub2])
            ELSE Ok([bitset |-> a.bitset, sub |-> sub2], r.res + i * CAP(l - 1))

\* An alloc whose leaf returns the unit without clearing its bit.
AllocNoClear(l, a) ==
    IF ~Any(l, a) THEN Ok(a, None)
    ELSE IF l = 0 THEN
        LET i == Log2(a) IN Ok(a, i)
    ELSE
        LET i == Log2(a.bitset)
            r == Alloc(l - 1, a.sub[i])
            sub2 == [a.sub EXCEPT ![i] = r.st]
        IN  IF r.panic \/ r.res = None
            THEN Panic([a EXCEPT !.sub = sub2])
            ELSE Ok([bitset |-> SetBit(a.bitset, i, Any(l - 1, r.st)), sub |-> sub2],
                    r.res + i * CAP(l - 1))

\* log2 asserts that its word is not 0 (assert_ne!(x, 0)); unwrap() panics
\* on a child that returned none.
Alloc(l, a) ==
    IF ~Any(l, a) THEN Ok(a, None)
    ELSE IF (IF l = 0 THEN a ELSE a.bitset) = 0 THEN Panic(a)
    ELSE IF l = 0 THEN
        LET i == Log2(a) IN Ok(SetBit(a, i, FALSE), i)
    ELSE
        LET i == Log2(a.bitset)
            r == Alloc(l - 1, a.sub[i])
            sub2 == [a.sub EXCEPT ![i] = r.st]
        IN  IF r.panic \/ r.res = None
            THEN Panic([a EXCEPT !.sub = sub2])
            ELSE Ok([bitset |-> SetBit(a.bitset, i, Any(l - 1, r.st)), sub |-> sub2],
                    r.res + i * CAP(l - 1))

\* dealloc(key): the leaf asserts that the bit is clear and sets it; the
\* cascade delegates to child key / T::CAP and sets its summary bit.
RECURSIVE Dealloc(_, _, _)
\* A dealloc that does not set the summary bit.
DeallocNoSummary(l, a, key) ==
    IF l = 0 THEN
        IF key >= WordBits \/ GetBit(a, key) THEN Panic(a)
        ELSE Ok(SetBit(a, key, TRUE), None)
    ELSE
        LET i == key \div CAP(l - 1) IN
        IF i >= FanOut THEN Panic(a)
        ELSE LET r == Dealloc(l - 1, a.sub[i], key % CAP(l - 1))
                 sub2 == [a.sub EXCEPT ![i] = r.st]
             IN  IF r.panic THEN Panic([a EXCEPT !.sub = sub2])
                 ELSE Ok([bitset |-> a.bitset, sub |-> sub2], None)

\* A dealloc whose leaf does not assert that the bit is clear.
DeallocNoAssert(l, a, key) ==
    IF l = 0 THEN
        IF key >= WordBits THEN Panic(a)
        ELSE Ok(SetBit(a, key, TRUE), None)
    ELSE
        LET i == key \div CAP(l - 1) IN
        IF i >= FanOut THEN Panic(a)
        ELSE LET r == Dealloc(l - 1, a.sub[i], key % CAP(l - 1))
                 sub2 == [a.sub EXCEPT ![i] = r.st]
             IN  IF r.panic THEN Panic([a EXCEPT !.sub = sub2])
                 ELSE Ok([bitset |-> SetBit(a.bitset, i, TRUE), sub |-> sub2], None)

Dealloc(l, a, key) ==
    IF l = 0 THEN
        IF key >= WordBits \/ GetBit(a, key) THEN Panic(a)
        ELSE Ok(SetBit(a, key, TRUE), None)
    ELSE
        LET i == key \div CAP(l - 1) IN
        IF i >= FanOut THEN Panic(a)
        ELSE LET r == Dealloc(l - 1, a.sub[i], key % CAP(l - 1))
                 sub2 == [a.sub EXCEPT ![i] = r.st]
             IN  IF r.panic THEN Panic([a EXCEPT !.sub = sub2])
                 ELSE Ok([bitset |-> SetBit(a.bitset, i, TRUE), sub |-> sub2], None)

\* BitAlloc16::insert / remove on start..end: set_bits with all ones of the
\* range's width, or with 0.
\* A leaf insert / remove that takes the range as start..=end.
LeafRangeInclusive(a, start, end, ins) ==
    IF ~BitRangeOk(start, end) THEN Panic(a)
    ELSE LET e == IF end < WordBits THEN end + 1 ELSE end
         IN  Ok(SetBits(a, start, e, IF ins THEN GetBits(65535, start, e) ELSE 0), None)

LeafRange(a, start, end, ins) ==
    IF ~BitRangeOk(start, end) THEN Panic(a)
    ELSE Ok(SetBits(a, start, end, IF ins THEN GetBits(65535, start, end) ELSE 0), None)

\* for_range (and the leaf's insert / remove at level 0): ins = TRUE is
\* insert, ins = FALSE is remove.  ForRangeLoop is the for loop from child i
\* to child last; it stops at the first child that panics.
RECURSIVE ForRange(_, _, _, _, _)
RECURSIVE ForRangeLoop(_, _, _, _, _, _, _)
\* A for_range that does not recompute the summary bit of the child.
ForRangeLoopStale(l, a, start, end, ins, i, last) ==
    IF i > last THEN Ok(a, None)
    ELSE IF i >= FanOut THEN Panic(a)
    ELSE
        LET c == CAP(l - 1)
            begin == IF start \div c = i THEN start % c ELSE 0
            stop == IF end \div c = i THEN end % c ELSE c
            r == ForRange(l - 1, a.sub[i], begin, stop, ins)
            sub2 == [a.sub EXCEPT ![i] = r.st]
        IN  IF r.panic THEN Panic([a EXCEPT !.sub = sub2])
            ELSE ForRangeLoop(l, [a EXCEPT !.sub = sub2], start, end, ins, i + 1, last)

\* A for_range that recomputes the summary bit from the child as it was
\* before the call on it.
ForRangeLoopOldChild(l, a, start, end, ins, i, last) ==
    IF i > last THEN Ok(a, None)
    ELSE IF i >= FanOut THEN Panic(a)
    ELSE
        LET c == CAP(l - 1)
            begin == IF start \div c = i THEN start % c ELSE 0
            stop == IF end \div c = i THEN end % c ELSE c
            r == ForRange(l - 1, a.sub[i], begin, stop, ins)
            sub2 == [a.sub EXCEPT ![i] = r.st]
        IN  IF r.panic THEN Panic([a EXCEPT !.sub = sub2])
            ELSE ForRangeLoop(l,
                    [bitset |-> SetBit(a.bitset, i, Any(l - 1, a.sub[i])), sub |-> sub2],
                    start, end, ins, i + 1, last)

ForRangeLoop(l, a, start, end, ins, i, last) ==
    IF i > last THEN Ok(a, None)
    ELSE IF i >= FanOut THEN Panic(a)
    ELSE
        LET c == CAP(l - 1)
            begin == IF start \div c = i THEN start % c ELSE 0
            stop == IF end \div c = i THEN end % c ELSE c
            r == ForRange(l - 1, a.sub[i], begin, stop, ins)
            sub2 == [a.sub EXCEPT ![i] = r.st]
        IN  IF r.panic THEN Panic([a EXCEPT !.sub = sub2])
            ELSE ForRangeLoop(l,
                    [bitset |-> SetBit(a.bitset, i, Any(l - 1, r.st)), sub |-> sub2],
                    start, end, ins, i + 1, last)

\* A for_range without assert!(end <= Self::CAP).
ForRangeNoEndAssert(l, a, start, end, ins) ==
    IF l = 0 THEN LeafRange(a, start, end, ins)
    ELSE IF ~(start <= end) \/ end = 0 THEN Panic(a)
    ELSE ForRangeLoop(l, a, start, end, ins,
                      start \div CAP(l - 1), (end - 1) \div CAP(l - 1))

\* end - 1 with end = 0 is an overflow panic in a checked build; unchecked it
\* wraps to usize::MAX and the first call, on child 0 with 0..0, panics in
\* the leaf's range assert.  Either way the call panics with nothing changed.
ForRange(l, a, start, end, ins) ==
    IF l = 0 THEN LeafRange(a, start, end, ins)
    ELSE IF ~(start <= end) \/ ~(end <= CAP(l)) \/ end = 0 THEN Panic(a)
    ELSE ForRangeLoop(l, a, start, end, ins,
                      start \div CAP(l - 1), (end - 1) \div CAP(l - 1))

Insert(l, a, start, end) == ForRange(l, a, start, end, TRUE)
Remove(l, a, start, end) == ForRange(l, a, start, end, FALSE)

\* BitAlloc16::next: the first set bit in key..16.
RECURSIVE LeafNext(_, _)
LeafNext(a, i) ==
    IF i >= WordBits THEN None
    ELSE IF GetBit(a, i) THEN i
    ELSE LeafNext(a, i + 1)

\* next(key): the child of key if its summary bit is set and it has a free
\* unit at or after key, else the first later child whose summary bit is set
\* and whose next(0) is Some (find_map).
RECURSIVE Next(_, _, _)
RECURSIVE NextScan(_, _, _)
NextScan(l, a, i) ==
    IF i >= FanOut THEN None
    ELSE LET r == IF GetBit(a.bitset, i) THEN Next(l - 1, a.sub[i], 0) ELSE None
         IN  IF r # None THEN r + CAP(l - 1) * i
             ELSE NextScan(l, a, i + 1)

\* A next that asks the child of key from its first unit, not from key.
NextFromChildStart(l, a, key) ==
    IF l = 0 THEN LeafNext(a, key)
    ELSE
        LET c == CAP(l - 1)
            ind == key \div c
            r == IF ind < FanOut /\ GetBit(a.bitset, ind)
                 THEN Next(l - 1, a.sub[ind], 0)
                 ELSE None
        IN  IF r # None THEN r + c * ind
            ELSE NextScan(l, a, ind + 1)

Next(l, a, key) ==
    IF l = 0 THEN LeafNext(a, key)
    ELSE
        LET c == CAP(l - 1)
            ind == key \div c
            r == IF ind < FanOut /\ GetBit(a.bitset, ind)
                 THEN Next(l - 1, a.sub[ind], key - c * ind)
                 ELSE None
        IN  IF r # None THEN r + c * ind
            ELSE NextScan(l, a, ind + 1)

\* usize is 64 bits wide.  A shift of a usize by align_log2 >= 64 panics in
\* a build with overflow checks (checked = TRUE, the debug profile), and in
\* a build without them (checked = FALSE, the release profile) it shifts by
\* align_log2 modulo 64.  The operators of the search take the build as a
\* parameter.
UsizeBits == 64

ShiftOverflows(align_log2, checked) == checked /\ align_log2 >= UsizeBits

ShiftBy(align_log2) == align_log2 % UsizeBits

\* x < (1 << n) for n < 64 and x below 2^31, as every capacity here is.
LtPow2(x, n) == n >= 31 \/ x < 2^n

\* find_contiguous.  The state of its while loop: the cursors base and
\* offset, and once the function has returned or panicked, done, with the
\* value returned (res) and whether an assert failed (panic).
LoopState(base, offset) ==
    [base |-> base, offset |-> offset, done |-> FALSE, res |-> None, panic |-> FALSE]
LoopReturn(s, res) == [s EXCEPT !.done = TRUE, !.res = res]
LoopPanic(s) == [s EXCEPT !.done = TRUE, !.panic = TRUE]

\* A pass that re-anchors base at next itself, aligned or not.
FindStepUnaligned(l, a, capacity, size, align_log2, checked, s) ==
    IF ~(s.offset < capacity) THEN LoopReturn(s, None)
    ELSE
        LET next == Next(l, a, s.offset) IN
        IF next = None THEN LoopReturn(s, None)
        ELSE IF next # s.offset THEN
            IF ~(next > s.offset) THEN LoopPanic(s)
            ELSE LoopState(next, next)
        ELSE IF (s.offset + 1) - s.base = size
             THEN LoopReturn([s EXCEPT !.offset = s.offset + 1], s.base)
        ELSE [s EXCEPT !.offset = s.offset + 1]

\* A pass that re-anchors base at the first aligned position after next,
\* and so passes over next when next is aligned.
FindStepSkipAligned(l, a, capacity, size, align_log2, checked, s) ==
    IF ~(s.offset < capacity) THEN LoopReturn(s, None)
    ELSE
        LET next == Next(l, a, s.offset) IN
        IF next = None THEN LoopReturn(s, None)
        ELSE IF next # s.offset THEN
            IF ~(next > s.offset) \/ ShiftOverflows(align_log2, checked) THEN LoopPanic(s)
            ELSE LET sh == ShiftBy(align_log2)
                     base2 == ((next \div 2^sh) + 1) * 2^sh
                 IN  LoopState(base2, base2)
        ELSE IF (s.offset + 1) - s.base = size
             THEN LoopReturn([s EXCEPT !.offset = s.offset + 1], s.base)
        ELSE [s EXCEPT !.offset = s.offset + 1]

\* A pass that re-anchors base at the aligned position at or before next.
FindStepAlignDown(l, a, capacity, size, align_log2, checked, s) ==
    IF ~(s.offset < capacity) THEN LoopReturn(s, None)
    ELSE
        LET next == Next(l, a, s.offset) IN
        IF next = None THEN LoopReturn(s, None)
        ELSE IF next # s.offset THEN
            IF ~(next > s.offset) \/ ShiftOverflows(align_log2, checked) THEN LoopPanic(s)
            ELSE LET sh == ShiftBy(align_log2)
                     base2 == (next \div 2^sh) * 2^sh
                 IN  LoopState(base2, base2)
        ELSE IF (s.offset + 1) - s.base = size
             THEN LoopReturn([s EXCEPT !.offset = s.offset + 1], s.base)
        ELSE [s EXCEPT !.offset = s.offset + 1]

\* One test of the loop condition and, if it holds, one pass of the body.
FindStep(l, a, capacity, size, align_log2, checked, s) ==
    IF ~(s.offset < capacity) THEN LoopReturn(s, None)
    ELSE
        LET next == Next(l, a, s.offset) IN
        IF next = None THEN LoopReturn(s, None)
        ELSE IF next # s.offset THEN
            IF ~(next > s.offset) \/ ShiftOverflows(align_log2, checked) THEN LoopPanic(s)
            ELSE LET sh == ShiftBy(align_log2)
                     base2 == (((next - 1) \div 2^sh) + 1) * 2^sh
                 IN  LoopState(base2, base2)
        ELSE IF (s.offset + 1) - s.base = size
             THEN LoopReturn([s EXCEPT !.offset = s.offset + 1], s.base)
        ELSE [s EXCEPT !.offset = s.offset + 1]

\* The loop, run to its end.  It is unrolled in blocks of 64 passes so that
\* the evaluation of a long scan stays shallow; the passes and their order
\* are those of the while loop.
RECURSIVE FindPasses(_, _, _, _, _, _, _, _)
FindPasses(l, a, capacity, size, align_log2, checked, s, n) ==
    IF s.done \/ n = 0 THEN s
    ELSE FindPasses(l, a, capacity, size, align_log2, checked,
                    FindStep(l, a, capacity, size, align_log2, checked, s), n - 1)

RECURSIVE FindLoop(_, _, _, _, _, _, _)
FindLoop(l, a, capacity, size, align_log2, checked, s) ==
    IF s.done THEN s
    ELSE FindLoop(l, a, capacity, size, align_log2, checked,
                  FindPasses(l, a, capacity, size, align_log2, checked, s, 64))

\* An entry that does not ask any().
FindEntryNoAny(l, a, capacity, size, align_log2, checked) ==
    IF ShiftOverflows(align_log2, checked) THEN LoopPanic(LoopState(0, 0))
    ELSE IF LtPow2(capacity, ShiftBy(align_log2))
    THEN LoopReturn(LoopState(0, 0), None)
    ELSE LoopState(0, 0)

\* The entry of find_contiguous: capacity < (1 << align_log2) || !ba.any()
\* gives none at once, else the loop starts with base = 0 and offset = base.
\* The shift comes first: it panics, or wraps, when align_log2 >= 64.
FindEntry(l, a, capacity, size, align_log2, checked) ==
    IF ShiftOverflows(align_log2, checked) THEN LoopPanic(LoopState(0, 0))
    ELSE IF LtPow2(capacity, ShiftBy(align_log2)) \/ ~Any(l, a)
    THEN LoopReturn(LoopState(0, 0), None)
    ELSE LoopState(0, 0)

\* A search that also gives up when the capacity equals the alignment.
FindContiguousStrict(l, a, capacity, size, align_log2, checked) ==
    IF ShiftOverflows(align_log2, checked) THEN Panic(a)
    ELSE IF LtPow2(capacity - 1, ShiftBy(align_log2)) \/ ~Any(l, a) THEN Ok(a, None)
    ELSE LET s == FindLoop(l, a, capacity, size, align_log2, checked, LoopState(0, 0))
         IN  [st |-> a, res |-> s.res, panic |-> s.panic]

\* find_contiguous: the entry, then the loop run to its end.
FindContiguous(l, a, capacity, size, align_log2, checked) ==
    LET s == FindLoop(l, a, capacity, size, align_log2, checked,
                      FindEntry(l, a, capacity, size, align_log2, checked))
    IN  [st |-> a, res |-> s.res, panic |-> s.panic]

\* An alloc_contiguous that reserves the first size units while it searches
\* and does not give them back when the search fails.
AllocContiguousPartial(l, a, size, align_log2, checked) ==
    LET f == FindContiguous(l, a, CAP(l), size, align_log2, checked) IN
    IF f.panic THEN Panic(a)
    ELSE IF f.res # None THEN
        LET r == Remove(l, a, f.res, f.res + size)
        IN  [st |-> r.st, res |-> IF r.panic THEN None ELSE f.res, panic |-> r.panic]
    ELSE IF size >= 1
         THEN Ok(Remove(l, a, 0, IF size <= CAP(l) THEN size ELSE CAP(l)).st, None)
         ELSE Ok(a, None)

\* alloc_contiguous: remove the run that find_contiguous found.
AllocContiguous(l, a, size, align_log2, checked) ==
    LET f == FindContiguous(l, a, CAP(l), size, align_log2, checked) IN
    IF f.panic THEN Panic(a)
    ELSE IF f.res # None THEN
        LET r == Remove(l, a, f.res, f.res + size)
        IN  [st |-> r.st, res |-> IF r.panic THEN None ELSE f.res, panic |-> r.panic]
    ELSE Ok(a, None)

(***************************************************************************)
(* The state machine: one allocator of a level chosen at construction, and *)
(* the calls a client makes on it.                                         *)
(*   lvl     the level of the allocator (fixed at construction)            *)
(*   ba      the allocator                                                 *)
(*   pre     the allocator immediately before the last call                *)
(*   op      the last call: its name, arguments a and b, result and        *)
(*           whether it panicked; a panic aborts the program, no call      *)
(*           follows it                                                    *)
(*   nops    the number of calls made                                      *)
(*   origin  the allocator when the current run of consecutive alloc()     *)
(*           calls began (after the last call that was not alloc)          *)
(*   run     the keys those alloc() calls returned, in order               *)
(*   build   what the calls made so far show of the build: "checked" or    *)
(*           "unchecked" once a call has shifted by 64 or more, "either"   *)
(*           before, while both builds behave alike                        *)
(*   held    the units handed out by alloc() or alloc_contiguous() and not *)
(*           given back since by dealloc or by an insert over them         *)
(*   heldPre held immediately before the last call                         *)
(*   find    a find_contiguous call followed pass by pass: its arguments,  *)
(*           its loop state and the number of next() queries it has made   *)
(***************************************************************************)
VARIABLES lvl, ba, pre, op, nops, origin, run, held, heldPre, find, build

vars == <<lvl, ba, pre, op, nops, origin, run, held, heldPre, find, build>>

\* The number of calls in a run.
MaxOps == 3

\* The ranges start..end given to insert and remove, per level: inside one
\* leaf word, across one and across many child boundaries, ending exactly on
\* a child boundary, everything.
GoodRanges(l) ==
    CASE l = 0 -> { <<0, 16>>, <<3, 6>>, <<8, 14>>, <<1, 2>>, <<15, 16>> }
      [] l = 1 -> { <<0, 256>>, <<3, 6>>, <<15, 18>>, <<3, 32>>, <<16, 32>>, <<8, 254>> }
      [] l = 2 -> { <<0, 4096>>, <<8, 4094>>, <<250, 520>>, <<3, 256>> }

\* Ranges that break start <= end <= CAP, and empty ranges.
BadRanges(l) ==
    CASE l = 0 -> { <<6, 3>>, <<0, 17>>, <<0, 0>>, <<3, 3>>, <<16, 16>> }
      [] l = 1 -> { <<6, 3>>, <<0, 257>>, <<0, 0>>, <<3, 3>>, <<16, 16>> }
      [] l = 2 -> { <<6, 3>>, <<0, 4097>>, <<0, 0>>, <<3, 3>>, <<256, 256>> }

Ranges(l) == GoodRanges(l) \cup BadRanges(l)

\* The keys given to dealloc (besides the key the last call returned) and to
\* next; the last ones of each set are out of range.
DeallocKeys(l) ==
    CASE l = 0 -> { 0, 4, 15, 16 }
      [] l = 1 -> { 4, 16, 255, 256 }
      [] l = 2 -> { 7, 300, 4096 }

NextKeys(l) ==
    CASE l = 0 -> { 0, 4, 9, 16 }
      [] l = 1 -> { 0, 5, 17, 256 }
      [] l = 2 -> { 0, 9, 600, 4099 }

\* The requests <<size, align_log2>> given to alloc_contiguous.
Requests(l) ==
    CASE l = 0 -> { <<0, 0>>, <<1, 1>>, <<2, 0>>, <<2, 1>>, <<3, 2>>, <<7, 3>>,
                    <<16, 0>>, <<17, 0>>, <<1, 4>>, <<1, 5>>, <<1, 64>>, <<2, 65>> }
      [] l = 1 -> { <<0, 0>>, <<2, 1>>, <<3, 2>>, <<17, 0>>, <<16, 4>>,
                    <<256, 0>>, <<257, 0>>, <<1, 9>>, <<2, 64>> }
      [] l = 2 -> { <<2, 1>>, <<7, 3>>, <<300, 4>>, <<1, 13>>, <<7, 64>> }

TestKeys(l) ==
    CASE l = 0 -> { 4, 16 }
      [] l = 1 -> { 17, 256 }
      [] l = 2 -> { 300, 4096 }

Call(name, a, b, r) == [name |-> name, a |-> a, b |-> b, res |-> r.res, panic |-> r.panic]

\* The units a call with outcome r hands out, and those it takes back.
Given(name, a, b, r) ==
    IF name \notin {"alloc", "alloc_contiguous"} THEN {}
    ELSE IF r.panic \/ r.res = None THEN {}
    ELSE IF name = "alloc" THEN {r.res}
    ELSE r.res..(r.res + a - 1)

TakenBack(name, a, b, r) ==
    IF r.panic THEN {}
    ELSE IF name = "dealloc" THEN {a}
    ELSE IF name = "insert" THEN a..(b - 1)
    ELSE {}

\* No search is being followed.
FindIdle ==
    [phase |-> "idle", capacity |-> 0, size |-> 0, align_log2 |-> 0,
     base |-> 0, offset |-> 0, queries |-> 0, res |-> None, panic |-> FALSE]

\* The builds to tell apart for a call with align_log2, given what the
\* calls made so far show (below 64 the two builds do the same), and what
\* such a call made in build checked shows of the build.
Builds(align_log2) ==
    IF build = "either" /\ align_log2 >= UsizeBits THEN BOOLEAN
    ELSE {build = "checked"}

Observed(align_log2, checked) ==
    IF align_log2 >= UsizeBits
    THEN (IF checked THEN "checked" ELSE "unchecked")
    ELSE build

\* The effect of a call with outcome r on the state and its history; the
\* calls other than the search show nothing of the build.
EffectOn(name, a, b, r) ==
    /\ ba' = r.st
    /\ pre' = ba
    /\ op' = Call(name, a, b, r)
    /\ nops' = nops + 1
    /\ IF name = "alloc"
       THEN /\ origin' = origin
            /\ run' = IF r.res # None THEN Append(run, r.res) ELSE run
       ELSE /\ origin' = r.st
            /\ run' = << >>
    /\ held' = (held \ TakenBack(name, a, b, r)) \cup Given(name, a, b, r)
    /\ heldPre' = held
    /\ UNCHANGED <<lvl, find>>

Effect(name, a, b, r) == EffectOn(name, a, b, r) /\ UNCHANGED build

Step(name, a, b, r) ==
    /\ ~op.panic
    /\ nops < MaxOps
    /\ Effect(name, a, b, r)

Init ==
    /\ lvl \in Levels
    /\ ba = Default(lvl)
    /\ pre = Default(lvl)
    /\ op = [name |-> "default", a |-> 0, b |-> 0, res |-> None, panic |-> FALSE]
    /\ nops = 0
    /\ origin = Default(lvl)
    /\ run = << >>
    /\ held = {}
    /\ heldPre = {}
    /\ find = FindIdle
    /\ build = "either"

DoAlloc ==
    \E r \in {Alloc(lvl, ba)} : Step("alloc", 0, 0, r)

DoAllocContiguous ==
    \E q \in Requests(lvl) : \E checked \in Builds(q[2]) :
        /\ ~op.panic
        /\ nops < MaxOps
        /\ EffectOn("alloc_contiguous", q[1], q[2],
                    AllocContiguous(lvl, ba, q[1], q[2], checked))
        /\ build' = Observed(q[2], checked)

\* The client frees a key it was just given, or one of DeallocKeys.
DoDealloc ==
    \E key \in DeallocKeys(lvl)
                 \cup (IF op.name # "test" /\ op.res # None THEN {op.res} ELSE {}) :
        Step("dealloc", key, 0, Dealloc(lvl, ba, key))

DoInsert == \E r \in Ranges(lvl) : Step("insert", r[1], r[2], Insert(lvl, ba, r[1], r[2]))

DoRemove == \E r \in Ranges(lvl) : Step("remove", r[1], r[2], Remove(lvl, ba, r[1], r[2]))

\* next(&self, key) reads the allocator only.
DoNext ==
    \E key \in NextKeys(lvl) : Step("next", key, 0, Ok(ba, Next(lvl, ba, key)))

\* test(&self, key) reads the allocator only; res is the boolean returned.
DoTest ==
    \E key \in TestKeys(lvl) : Step("test", key, 0, Test(lvl, ba, key))

Next_ ==
    DoAlloc \/ DoAllocContiguous \/ DoDealloc \/ DoInsert \/ DoRemove \/ DoNext \/ DoTest

Spec == Init /\ [][Next_]_vars

(***************************************************************************)
(* A second client, which fills a new allocator with one insert and then   *)
(* calls alloc() until it returns none (the loops of tests::bitalloc16     *)
(* and tests::bitalloc4k).                                                 *)
(***************************************************************************)
DrainRanges(l) ==
    CASE l = 0 -> { <<0, 16>>, <<3, 6>>, <<8, 14>>, <<5, 12>> }
      [] l = 1 -> { <<0, 256>>, <<15, 18>>, <<3, 32>>, <<8, 254>> }
      [] l = 2 -> { <<0, 4096>>, <<250, 520>> }

DrainInsert ==
    /\ nops = 0
    /\ \E r \in DrainRanges(lvl) : Effect("insert", r[1], r[2], Insert(lvl, ba, r[1], r[2]))

DrainAlloc ==
    /\ nops > 0
    /\ ~op.panic
    /\ ~(op.name = "alloc" /\ op.res = None)
    /\ Effect("alloc", 0, 0, Alloc(lvl, ba))

NextDrain == DrainInsert \/ DrainAlloc

SpecDrain == Init /\ [][NextDrain]_vars

(***************************************************************************)
(* A third client, which puts an allocator in some state with inserts and  *)
(* removes and then calls find_contiguous on it; the search is followed    *)
(* one pass of its while loop at a time.  The capacity handed to the       *)
(* search is the allocator's CAP, or for the leaf also BitAlloc4K::CAP (as *)
(* tests::bitalloc_contiguous does).                                       *)
(***************************************************************************)
FindRanges(l) ==
    CASE l = 0 -> { <<0, 16>>, <<3, 6>>, <<8, 14>>, <<1, 2>> }
      [] l = 1 -> { <<0, 256>>, <<15, 18>>, <<3, 32>>, <<100, 200>> }
      [] l = 2 -> { <<250, 520>>, <<8, 300>>, <<4000, 4096>> }

FindRequests(l) ==
    CASE l = 0 -> { <<0, 0>>, <<2, 1>>, <<3, 2>>, <<7, 0>>, <<1, 5>>, <<1, 64>>, <<2, 65>> }
      [] l = 1 -> { <<2, 1>>, <<17, 4>>, <<40, 3>>, <<1, 9>>, <<2, 65>> }
      [] l = 2 -> { <<7, 3>>, <<300, 4>>, <<1, 13>>, <<7, 64>> }

FindCapacities(l) == IF l = 0 THEN {CAP(0), CAP(2)} ELSE {CAP(l)}

FindSetup ==
    /\ find.phase = "idle"
    /\ ~op.panic
    /\ nops + 1 < MaxOps
    /\ \E r \in FindRanges(lvl) :
          \/ Effect("insert", r[1], r[2], Insert(lvl, ba, r[1], r[2]))
          \/ Effect("remove", r[1], r[2], Remove(lvl, ba, r[1], r[2]))

\* The call, up to the first test of the loop condition.
FindStart ==
    /\ find.phase = "idle"
    /\ ~op.panic
    /\ \E q \in FindRequests(lvl), capacity \in FindCapacities(lvl) :
       \E checked \in Builds(q[2]) :
          LET s == FindEntry(lvl, ba, capacity, q[1], q[2], checked) IN
          /\ build' = Observed(q[2], checked)
          /\ find' = [phase |-> IF s.done THEN "done" ELSE "loop",
                      capacity |-> capacity, size |-> q[1], align_log2 |-> q[2],
                      base |-> s.base, offset |-> s.offset, queries |-> 0,
                      res |-> s.res, panic |-> s.panic]
    /\ UNCHANGED <<lvl, ba, pre, op, nops, origin, run, held, heldPre>>

\* One test of the loop condition and one pass of the body; next() is
\* queried when the condition holds.  The count of queries stops the model
\* once it has passed the capacity.
FindPass ==
    /\ find.phase = "loop"
    /\ find.queries <= find.capacity
    /\ LET s == FindStep(lvl, ba, find.capacity, find.size, find.align_log2,
                         build = "checked",
                         LoopState(find.base, find.offset))
       IN  find' = [find EXCEPT
                      !.phase = IF s.done THEN "done" ELSE "loop",
                      !.base = s.base, !.offset = s.offset,
                      !.queries = IF find.offset < find.capacity THEN @ + 1 ELSE @,
                      !.res = s.res, !.panic = s.panic]
    /\ UNCHANGED <<lvl, ba, pre, op, nops, origin, run, held, heldPre, build>>

NextFind == FindSetup \/ FindStart \/ FindPass

\* The loop runs on until it returns.
SpecFind == Init /\ [][NextFind]_vars /\ WF_vars(FindPass)

(***************************************************************************)
(* tests::log2_: log2 and log2_naive applied to a nonzero 16-bit word.     *)
(* The word is that of a leaf, which insert and remove can bring to any    *)
(* value; the call records the word (a), what the hardware path returns    *)
(* (b) and what log2_naive returns (res).                                  *)
(***************************************************************************)
InitLog2 ==
    /\ lvl = 0
    /\ ba \in 1..65535
    /\ pre = ba
    /\ op = [name |-> "default", a |-> 0, b |-> 0, res |-> None, panic |-> FALSE]
    /\ nops = 0
    /\ origin = ba
    /\ run = << >>
    /\ held = {}
    /\ heldPre = {}
    /\ find = FindIdle
    /\ build = "either"

Log2Test ==
    /\ nops = 0
    /\ op' = [name |-> "log2", a |-> ba, b |-> Log2Bsr(ba), res |-> Log2Naive(ba),
              panic |-> FALSE]
    /\ nops' = 1
    /\ UNCHANGED <<lvl, ba, pre, origin, run, held, heldPre, find, build>>

SpecLog2 == InitLog2 /\ [][Log2Test]_vars

(***************************************************************************)
(* The free units of an allocator, in terms of test().                     *)
(***************************************************************************)
\* The set of the keys k in 0..CAP-1 with test(k) true (the default state,
\* where every word is 0, is answered at once).
FreeSet(l, a) ==
    IF a = Default(l) THEN {}
    ELSE { k \in 0..(CAP(l) - 1) : IsFree(l, a, k) }

\* The set of the keys k with test(k) different in a and b.  Equal subtrees
\* answer every test alike and are not descended into.
RECURSIVE TestDiff(_, _, _)
TestDiff(l, a, b) ==
    IF a = b THEN {}
    ELSE IF l = 0 THEN { k \in 0..(LeafCap - 1) : IsFree(0, a, k) # IsFree(0, b, k) }
    ELSE UNION { { i * CAP(l - 1) + k : k \in TestDiff(l - 1, a.sub[i], b.sub[i]) } :
                 i \in 0..(FanOut - 1) }

\* Whether some unit of the allocator is free, by the leaf words alone.
RECURSIVE HasFree(_, _)
HasFree(l, a) ==
    IF l = 0 THEN \E k \in 0..(LeafCap - 1) : IsFree(0, a, k)
    ELSE \E i \in 0..(FanOut - 1) : HasFree(l - 1, a.sub[i])

\* The summary invariant at one node and, recursively, at all nodes below.
RECURSIVE SummaryOk(_, _)
SummaryOk(l, a) ==
    \/ l = 0
    \/ \A i \in 0..(FanOut - 1) :
          /\ GetBit(a.bitset, i) = Any(l - 1, a.sub[i])
          /\ Any(l - 1, a.sub[i]) = HasFree(l - 1, a.sub[i])
          /\ SummaryOk(l - 1, a.sub[i])

Returned(name) == op.name = name /\ ~op.panic

(***************************************************************************)
(* C1.  After any sequence of alloc, alloc_contiguous, dealloc, insert and *)
(* remove calls (and next queries) that did not panic, at every composite  *)
(* node of every depth summary bit i is set if and only if child i's any() *)
(* is true, which is the case if and only if child i has a free unit.      *)
(***************************************************************************)
C1_SummaryInvariant == ~op.panic => SummaryOk(lvl, ba)

\* A three-level allocator after three calls, whose top summary word has
\* bits set and bits clear and whose child 0 is itself partly free.
C1_Witness ==
    /\ lvl = 2 /\ nops = MaxOps /\ ~op.panic
    /\ op.name \in {"remove", "dealloc", "alloc", "alloc_contiguous"}
    /\ ba.bitset \notin {0, 65535}
    /\ ba.sub[0].bitset \notin {0, 65535}

(***************************************************************************)
(* C2.  When alloc() returns Some(k): test(k) was true before the call and *)
(* is false after it, no other unit changed, and dealloc(k) then succeeds, *)
(* makes test(k) true and restores the allocator (leaf words and summary   *)
(* words) to what it was before the alloc.                                 *)
(***************************************************************************)
C2_AllocDeallocInverse ==
    (Returned("alloc") /\ op.res # None) =>
        /\ IsFree(lvl, pre, op.res)
        /\ ~IsFree(lvl, ba, op.res)
        /\ TestDiff(lvl, pre, ba) = {op.res}
        /\ LET d == Dealloc(lvl, ba, op.res)
           IN  /\ ~d.panic
               /\ IsFree(lvl, d.st, op.res)
               /\ d.st = pre

\* An alloc in a cascade that took the last free unit of a child and so
\* cleared a summary bit, which the dealloc has to set again.
C2_Witness ==
    /\ lvl >= 1 /\ Returned("alloc") /\ op.res # None
    /\ pre.bitset # ba.bitset
    /\ Any(lvl, ba)

(***************************************************************************)
(* C3.  alloc() returns the largest k in 0..CAP-1 with test(k) true, on a  *)
(* leaf and on a cascade of any depth, and returns none if and only if no  *)
(* unit is free.                                                           *)
(***************************************************************************)
C3_AllocHighestFree ==
    Returned("alloc") =>
        LET F == FreeSet(lvl, pre)
        IN  IF F = {} THEN op.res = None
            ELSE op.res \in F /\ \A k \in F : k <= op.res

\* A third call on a cascade that returned a key while free units remain in
\* another child, below the one it was taken from.
C3_Witness ==
    /\ lvl >= 1 /\ nops = MaxOps /\ Returned("alloc") /\ op.res # None
    /\ \E k \in FreeSet(lvl, ba) : k \div CAP(lvl - 1) < op.res \div CAP(lvl - 1)
    /\ \E k \in FreeSet(lvl, ba) : k \div CAP(lvl - 1) = op.res \div CAP(lvl - 1)

(***************************************************************************)
(* C4.  When n units are free (all CAP after insert(0..CAP)), exactly n    *)
(* consecutive alloc() calls return a key and the next one returns none:   *)
(* the keys returned are pairwise distinct, they are exactly the units     *)
(* that were free, and at the none any() is false.                         *)
(***************************************************************************)
RunKeys == { run[j] : j \in 1..Len(run) }

C4_Exhaustion ==
    (op.name = "alloc") =>
        LET F == FreeSet(lvl, origin)
        IN  /\ ~op.panic
            /\ Cardinality(RunKeys) = Len(run)
            /\ RunKeys \subseteq F
            /\ (op.res = None) => (RunKeys = F /\ ~Any(lvl, ba))
            /\ (op.res # None) => (Len(run) <= Cardinality(F))
            /\ (Len(run) < Cardinality(F)) = (Alloc(lvl, ba).res # None)

\* The none that ends the CAP allocs after insert(0..CAP) on a cascade.
C4_Witness ==
    /\ lvl >= 1 /\ op.name = "alloc" /\ op.res = None
    /\ Len(run) = CAP(lvl)
    /\ origin = Insert(lvl, Default(lvl), 0, CAP(lvl)).st

(***************************************************************************)
(* Contiguous runs, in terms of test().                                    *)
(***************************************************************************)
\* Whether b..b+size-1 is a run of free units of F that starts on a multiple
\* of 2^align_log2 and ends within capacity cap.
\* Whether b is a multiple of 2^align_log2 (b is below 2^31).
Multiple(b, align_log2) == IF align_log2 >= 31 THEN b = 0 ELSE b % 2^align_log2 = 0

IsRun(F, cap, b, size, align_log2) ==
    /\ Multiple(b, align_log2)
    /\ b + size <= cap
    /\ \A k \in b..(b + size - 1) : k \in F

(***************************************************************************)
(* C5.  When alloc_contiguous(size, align_log2) returns Some(base): base   *)
(* is a multiple of 2^align_log2, base + size <= CAP, every unit of        *)
(* base..base+size-1 was free before the call and is allocated after it,   *)
(* each of them can then be freed by dealloc without a panic, and no unit  *)
(* outside the run changed.  (Not so for align_log2 >= 64 in a build       *)
(* without overflow checks; see the states that violate it.)               *)
(***************************************************************************)
C5_ContiguousSound ==
    (Returned("alloc_contiguous") /\ op.res # None) =>
        LET base == op.res
            size == op.a
        IN  /\ Multiple(base, op.b)
            /\ base + size <= CAP(lvl)
            /\ \A k \in base..(base + size - 1) :
                  /\ IsFree(lvl, pre, k)
                  /\ ~IsFree(lvl, ba, k)
                  /\ ~Dealloc(lvl, ba, k).panic
            /\ TestDiff(lvl, pre, ba) \subseteq base..(base + size - 1)

\* C5 for align_log2 below the width of usize, where no shift overflows.
C5_SoundBelowUsizeWidth == (op.b < UsizeBits) => C5_ContiguousSound

\* A run of 300 units on BitAlloc4K that starts after allocated units, on
\* the next multiple of 16, and runs across a child boundary.
C5_Witness ==
    /\ lvl = 2 /\ Returned("alloc_contiguous")
    /\ op.a = 300 /\ op.b = 4 /\ op.res = 16

(***************************************************************************)
(* C6.  When alloc_contiguous(size, align_log2) with size >= 1 returns     *)
(* Some(base), base is the first such run: no smaller multiple b of        *)
(* 2^align_log2 has all the units of b..b+size-1 free.                     *)
(***************************************************************************)
C6_ContiguousFirst ==
    (Returned("alloc_contiguous") /\ op.a >= 1 /\ op.res # None) =>
        LET F == FreeSet(lvl, pre)
        IN  \A b \in 0..(op.res - 1) : ~IsRun(F, CAP(lvl), b, op.a, op.b)

\* A run found beyond free units that could not hold it: some unit below
\* the base is free and is left free.
C6_Witness ==
    /\ Returned("alloc_contiguous") /\ op.a >= 2 /\ op.b >= 1 /\ op.res # None
    /\ \E k \in 0..(op.res - 1) : IsFree(lvl, pre, k)
    /\ \E k \in 0..(op.res - 1) : Multiple(k, op.b) /\ IsFree(lvl, pre, k)

(***************************************************************************)
(* C7, as stated: for size >= 1, alloc_contiguous(size, align_log2)        *)
(* returns none only when no multiple b of 2^align_log2 with               *)
(* b + size <= CAP has all the units of b..b+size-1 free.                  *)
(***************************************************************************)
NoRun(F, cap, size, align_log2) ==
    \A b \in 0..(cap - 1) : ~IsRun(F, cap, b, size, align_log2)

C7_NoneOnlyIfNoRun ==
    (Returned("alloc_contiguous") /\ op.a >= 1 /\ op.res = None) =>
        NoRun(FreeSet(lvl, pre), CAP(lvl), op.a, op.b)

(***************************************************************************)
(* C7, amended: for size >= 1, alloc_contiguous(size, align_log2) returns  *)
(* none only when 2^align_log2 > CAP or no multiple b of 2^align_log2      *)
(* with b + size <= CAP has all the units of b..b+size-1 free.             *)
(***************************************************************************)
C7_NoneOnlyIfNoRunOrAlignTooLarge ==
    (Returned("alloc_contiguous") /\ op.a >= 1 /\ op.res = None) =>
        \/ LtPow2(CAP(lvl), op.b)
        \/ NoRun(FreeSet(lvl, pre), CAP(lvl), op.a, op.b)

\* A none for a request that fits the capacity, on an allocator with free
\* units, some of them on a multiple of the alignment.
C7_Witness ==
    /\ Returned("alloc_contiguous") /\ op.a >= 1 /\ op.res = None
    /\ ~LtPow2(CAP(lvl), op.b) /\ op.a <= CAP(lvl)
    /\ \E k \in FreeSet(lvl, pre) : Multiple(k, op.b)

(***************************************************************************)
(* C8.  When alloc_contiguous returns none, for any size (0 too) and any   *)
(* align_log2, the allocator is what it was before the call: no leaf word  *)
(* and no summary word changed.                                            *)
(***************************************************************************)
C8_NoneLeavesState ==
    (Returned("alloc_contiguous") /\ op.res = None) => ba = pre

\* A none on an allocator that has free units, for size 0.
C8_Witness ==
    /\ Returned("alloc_contiguous") /\ op.res = None
    /\ op.a = 0 /\ Any(lvl, pre)

(***************************************************************************)
(* C9.  next(key) returns the smallest m with key <= m < CAP and test(m)   *)
(* true, and none exactly when there is no such m (so too for key >= CAP); *)
(* it leaves the allocator as it was.  So a value returned is never below  *)
(* key, and the assert next > offset of the contiguous search never fails: *)
(* the search panics only on the shift by align_log2 >= 64 of a build with *)
(* overflow checks, at its entry.                                          *)
(***************************************************************************)
C9_NextSmallestFree ==
    /\ Returned("next") =>
          LET G == { m \in FreeSet(lvl, pre) : m >= op.a }
          IN  /\ IF G = {} THEN op.res = None
                 ELSE op.res \in G /\ \A m \in G : op.res <= m
              /\ ba = pre
    /\ (op.name = "alloc_contiguous") =>
          (FindContiguous(lvl, pre, CAP(lvl), op.a, op.b, build = "checked").panic =>
              (build = "checked" /\ op.b >= UsizeBits))

\* A next on BitAlloc4K whose answer lies in a later child than key.
C9_Witness ==
    /\ lvl = 2 /\ Returned("next") /\ op.res # None
    /\ op.res \div CAP(1) > op.a \div CAP(1)
    /\ op.res % CAP(1) # 0

(***************************************************************************)
(* C10.  For start < end <= CAP, insert(start..end) makes test(k) true and *)
(* remove(start..end) makes it false for every k in start..end-1, neither  *)
(* changes test(k) for a k outside the range, also when the range crosses  *)
(* child boundaries or ends on one.                                        *)
(***************************************************************************)
C10_RangeEffect ==
    (op.name \in {"insert", "remove"} /\ op.a < op.b /\ op.b <= CAP(lvl)) =>
        /\ ~op.panic
        /\ LET F == FreeSet(lvl, ba)
           IN  \A k \in op.a..(op.b - 1) : (k \in F) = (op.name = "insert")
        /\ TestDiff(lvl, pre, ba) \subseteq op.a..(op.b - 1)

\* A remove on BitAlloc4K that ends exactly on a child boundary and clears
\* units that were free, with free units left on both sides.
C10_Witness ==
    /\ lvl = 2 /\ Returned("remove") /\ op.a = 3 /\ op.b = CAP(1)
    /\ IsFree(2, pre, 3) /\ IsFree(2, ba, 2) /\ IsFree(2, ba, CAP(1))

(***************************************************************************)
(* C11.  dealloc(key) of a unit that is free (a double free) panics, at    *)
(* every depth, and it panics before anything is modified: the allocator   *)
(* at the panic is the allocator before the call, leaf words and summary   *)
(* words alike.                                                            *)
(***************************************************************************)
C11_DoubleFreeFailsFast ==
    (op.name = "dealloc" /\ op.a < CAP(lvl) /\ IsFree(lvl, pre, op.a)) =>
        (op.panic /\ ba = pre)

\* A double free on BitAlloc4K, of a unit two levels down, in an allocator
\* that has allocated units too.
C11_Witness ==
    /\ lvl = 2 /\ op.name = "dealloc" /\ op.panic
    /\ op.a < CAP(2) /\ IsFree(2, pre, op.a)
    /\ op.a >= CAP(1)
    /\ \E k \in {0, 4095} : ~IsFree(2, pre, k)

(***************************************************************************)
(* C12.  On a cascade, insert(start..end) and remove(start..end) with      *)
(* start > end or end > CAP panic before any child or summary bit is       *)
(* modified: the allocator at the panic is the allocator before the call.  *)
(***************************************************************************)
C12_BadRangeFailsFast ==
    (lvl >= 1 /\ op.name \in {"insert", "remove"}
              /\ (op.a > op.b \/ op.b > CAP(lvl))) =>
        (op.panic /\ ba = pre)

\* An insert of 0..CAP+1 on a cascade that has allocated units, which a
\* loop over the children would have set free before it failed.
C12_Witness ==
    /\ lvl >= 1 /\ op.name = "insert" /\ op.panic
    /\ op.a = 0 /\ op.b = CAP(lvl) + 1
    /\ Any(lvl, pre) /\ ~IsFree(lvl, pre, 0)

(***************************************************************************)
(* C13.  The default state of every allocator, leaf or cascade, is fully   *)
(* allocated: any() is false, test(k) is false for every k in 0..CAP-1,    *)
(* alloc() returns none, next(k) returns none for every k, and every       *)
(* summary word is 0.                                                      *)
(***************************************************************************)
RECURSIVE SummaryWordsZero(_, _)
SummaryWordsZero(l, a) ==
    \/ l = 0
    \/ /\ a.bitset = 0
       /\ \A i \in 0..(FanOut - 1) : SummaryWordsZero(l - 1, a.sub[i])

C13_DefaultFullyAllocated ==
    (nops = 0) =>
        /\ ~Any(lvl, ba)
        /\ \A k \in 0..(CAP(lvl) - 1) : ~IsFree(lvl, ba, k)
        /\ LET r == Alloc(lvl, ba) IN ~r.panic /\ r.res = None /\ r.st = ba
        /\ \A k \in 0..(CAP(lvl) + 1) : Next(lvl, ba, k) = None
        /\ SummaryWordsZero(lvl, ba)

\* The first alloc() of a client on a new BitAlloc4K, which returned none.
C13_Witness ==
    /\ lvl = 2 /\ nops = 1 /\ Returned("alloc") /\ op.res = None
    /\ pre = Default(2)

(***************************************************************************)
(* C14.  No unit is handed out twice: a unit returned by alloc(), or lying *)
(* in a run returned by alloc_contiguous(), is not returned by a later     *)
(* alloc() nor lies in a run returned by a later alloc_contiguous(),       *)
(* unless a dealloc of it or an insert of a range containing it happened   *)
(* in between.  held is the set of the units handed out and not given back *)
(* in one of these two ways; the units a call hands out are not in held    *)
(* as it was before the call.                                              *)
(***************************************************************************)
C14_NoDoubleHandOut ==
    /\ (Returned("alloc") /\ op.res # None) => op.res \notin heldPre
    /\ (Returned("alloc_contiguous") /\ op.res # None) =>
           (op.res..(op.res + op.a - 1)) \cap heldPre = {}

\* A call that handed out units while others were held, after a unit had
\* been handed out and a call other than alloc had followed.
C14_Witness ==
    /\ nops = 3 /\ ~op.panic
    /\ op.name \in {"alloc", "alloc_contiguous"} /\ op.res # None
    /\ heldPre # {}
    /\ held # heldPre

(***************************************************************************)
(* C15.  An empty range start..start with start <= CAP is accepted:        *)
(* insert and remove on it return without a panic and leave the allocator  *)
(* as it was.  (The code does not do this; see the states that violate     *)
(* it.)                                                                    *)
(***************************************************************************)
C15_EmptyRangeIsNoOp ==
    (op.name \in {"insert", "remove"} /\ op.a = op.b /\ op.b <= CAP(lvl)) =>
        (~op.panic /\ ba = pre)

(***************************************************************************)
(* C16.  alloc() never panics in a reachable state: log2 is called on a    *)
(* nonzero word only, and in a cascade the child under the highest set     *)
(* summary bit returns a unit, so unwrap() does not fail.  Every alloc()   *)
(* the client made returned, and an alloc() made in any state reached      *)
(* without a panic would return too.                                       *)
(***************************************************************************)
C16_AllocNeverPanics ==
    /\ (op.name = "alloc") => ~op.panic
    /\ ~op.panic => ~Alloc(lvl, ba).panic

\* An alloc() on a BitAlloc4K that returned a unit, after a remove or an
\* alloc_contiguous had cleared units under a summary bit.
C16_Witness ==
    /\ lvl = 2 /\ nops = 3 /\ Returned("alloc") /\ op.res # None
    /\ \E k \in 0..(CAP(2) - 1) : IsFree(2, origin, k)
    /\ \E i \in 0..(FanOut - 1) : pre.bitset # 0 /\ ~Any(1, pre.sub[i]) /\ i < Log2(pre.bitset)

(***************************************************************************)
(* C17.  find_contiguous returns none at once when the capacity is below   *)
(* 2^align_log2 or the allocator has no free unit, whatever the size and   *)
(* whatever units are free, and it does so without a query of next().      *)
(* (Not so for align_log2 >= 64; see the states that violate it.)          *)
(***************************************************************************)
C17_EarlyNone ==
    (find.phase # "idle"
        /\ (LtPow2(find.capacity, find.align_log2) \/ ~Any(lvl, ba))) =>
        /\ find.phase = "done"
        /\ find.res = None
        /\ ~find.panic
        /\ find.queries = 0

\* C17 for align_log2 below the width of usize, where no shift overflows.
C17_EarlyNoneBelowUsizeWidth == (find.align_log2 < UsizeBits) => C17_EarlyNone

\* A search given up on the alignment in an allocator with free units, and
\* a search given up in an allocator without a free unit after calls on it.
C17_Witness ==
    /\ find.phase = "done" /\ find.queries = 0
    /\ \/ LtPow2(find.capacity, find.align_log2) /\ Any(lvl, ba)
       \/ ~LtPow2(find.capacity, find.align_log2) /\ ~Any(lvl, ba) /\ nops > 0

(***************************************************************************)
(* C18.  find_contiguous terminates.  In every pass of its loop offset     *)
(* strictly increases, by 1 when the unit at offset is free and else to an *)
(* aligned position at or after next(offset) > offset; base <= offset      *)
(* throughout; so next() is queried at most capacity times, no pass of the *)
(* loop panics, and the loop ends with Some(base) or with none.  (The      *)
(* aligned position is a multiple of 2^(align_log2 mod 64); a build with   *)
(* overflow checks panics on align_log2 >= 64 before the loop.)            *)
(***************************************************************************)
C18_SearchTerminates ==
    /\ [](find.phase # "idle" =>
            /\ find.base <= find.offset
            /\ find.queries <= find.capacity
            /\ find.panic => (find.queries = 0 /\ build = "checked"
                                               /\ find.align_log2 >= UsizeBits)
            /\ (find.phase = "done" => find.res \in {None, find.base}))
    /\ [][(find.phase = "loop" /\ find'.phase = "loop") =>
            find'.offset > find.offset]_vars
    /\ [][(find.phase = "loop" /\ find'.phase = "done") =>
            \/ find'.res = find.base /\ find'.offset = find.offset + 1
            \/ find'.res = None /\ find'.offset = find.offset]_vars
    /\ [][(find.phase = "loop" /\ find'.offset # find.base') =>
            find'.base = find.base]_vars
    /\ [][(find.phase = "loop" /\ find'.base # find.base) =>
            /\ find'.offset = find'.base
            /\ find'.base % 2^ShiftBy(find.align_log2) = 0]_vars
    /\ [](find.phase = "loop" => <>(find.phase = "done"))

\* A search of a BitAlloc4K that ended after passes of both kinds: base was
\* moved to an aligned position, and offset went on by single units.
C18_Witness ==
    /\ lvl = 2 /\ find.phase = "done"
    /\ find.base > 0 /\ find.align_log2 >= 1 /\ Multiple(find.base, find.align_log2)
    /\ find.offset > find.base + 1
    /\ find.queries > 2
    /\ find.res = FindContiguous(lvl, ba, find.capacity, find.size, find.align_log2,
                                 build = "checked").res

(***************************************************************************)
(* C19.  For every nonzero 16-bit word x (1..65535), log2_naive(x) is the  *)
(* 0-based index of the most significant set bit of x, the one p in 0..15  *)
(* with 2^p <= x < 2^(p+1), which is what the hardware path returns.       *)
(***************************************************************************)
C19_Log2NaiveIsMsb ==
    (op.name = "log2") =>
        /\ op.res \in 0..(WordBits - 1)
        /\ 2^op.res <= op.a /\ op.a < 2^(op.res + 1)
        /\ \A p \in 0..(WordBits - 1) : (2^p <= op.a /\ op.a < 2^(p + 1)) => p = op.res
        /\ op.res = op.b

\* log2_naive applied to a word with bits below its highest set one.
C19_Witness ==
    op.name = "log2" /\ op.a = 40961 /\ op.res = 15

====
